---- MODULE Spec2Model ----
(***************************************************************************)
(* A model of svntool.py: the Repo class (one working copy and its remote  *)
(* branch area), the fleet commands that apply one handler per repository, *)
(* and the revision-set parser.  Strings are sequences of one-character    *)
(* strings, so that strip, split, endswith, replace, basename and the      *)
(* regular expression of currentPath are computed as Python computes them. *)
(***************************************************************************)
EXTENDS Integers, Sequences, FiniteSets, TLC

VARIABLES
    repos,      \* the ordered list of Repo objects with their working copy and remote
    last,       \* the last Repo method call on repos[1]: method, arguments, what it did
    cmd,        \* the fleet command being run, with its parsed arguments
    idx,        \* the fleet loop's position: the next repository to handle
    trace,      \* the handler invocations of the fleet loop so far
    raised,     \* the exception that ended the fleet run, or "none"
    file,       \* the lines of the revision-set file
    rs          \* the result of loadRevSet on file, once it has run

vars == <<repos, last, cmd, idx, trace, raised, file, rs>>

---------------------------------------------------------------------------
(* Bounds *)

MaxRev == 2         \* revisions are 1..MaxRev
NumRepos == 2       \* repositories of the fleet
MaxLines == 4       \* lines of a revision-set file

---------------------------------------------------------------------------
(* Strings *)

None == <<"None">>      \* Python's None, unequal to every string

S_trunk == <<"t","r","u","n","k">>
S_branches == <<"b","r","a","n","c","h","e","s">>
S_tags == <<"t","a","g","s">>
S_closed == <<".","c","l","o","s","e","d">>
S_root == <<"s","v","n",":","/","/","h">>

Whitespace == {" ", "\t", "\n", "\r"}
Digits == {"0","1","2","3","4","5","6","7","8","9"}

DigitValue(c) ==
    CASE c = "0" -> 0 [] c = "1" -> 1 [] c = "2" -> 2 [] c = "3" -> 3
      [] c = "4" -> 4 [] c = "5" -> 5 [] c = "6" -> 6 [] c = "7" -> 7
      [] c = "8" -> 8 [] c = "9" -> 9

RECURSIVE ParseNat(_)
ParseNat(s) ==
    IF s = <<>> THEN 0
    ELSE 10 * ParseNat(SubSeq(s, 1, Len(s) - 1)) + DigitValue(s[Len(s)])

FormatDigit(d) ==
    CASE d = 0 -> "0" [] d = 1 -> "1" [] d = 2 -> "2" [] d = 3 -> "3"
      [] d = 4 -> "4" [] d = 5 -> "5" [] d = 6 -> "6" [] d = 7 -> "7"
      [] d = 8 -> "8" [] d = 9 -> "9"

RECURSIVE FormatNat(_)
FormatNat(n) ==
    IF n < 10 THEN <<FormatDigit(n)>>
    ELSE FormatNat(n \div 10) \o <<FormatDigit(n % 10)>>

StartsWith(s, p) == Len(p) <= Len(s) /\ SubSeq(s, 1, Len(p)) = p

EndsWith(s, p) == Len(p) <= Len(s) /\ SubSeq(s, Len(s) - Len(p) + 1, Len(s)) = p

RECURSIVE LStrip(_)
LStrip(s) ==
    IF s # <<>> /\ s[1] \in Whitespace THEN LStrip(Tail(s)) ELSE s

RECURSIVE RStrip(_)
RStrip(s) ==
    IF s # <<>> /\ s[Len(s)] \in Whitespace
    THEN RStrip(SubSeq(s, 1, Len(s) - 1)) ELSE s

Strip(s) == RStrip(LStrip(s))

IsDigit(s) == s # <<>> /\ \A i \in 1..Len(s) : s[i] \in Digits

\* str.split(c): the pieces between the occurrences of c, empty pieces kept
RECURSIVE Split(_, _)
Split(s, c) ==
    IF \A i \in 1..Len(s) : s[i] # c THEN <<s>>
    ELSE LET k == CHOOSE i \in 1..Len(s) :
                      s[i] = c /\ \A j \in 1..(i - 1) : s[j] # c
         IN <<SubSeq(s, 1, k - 1)>> \o Split(SubSeq(s, k + 1, Len(s)), c)

RECURSIVE Join(_, _)
Join(parts, sep) ==
    IF parts = <<>> THEN <<>>
    ELSE IF Len(parts) = 1 THEN parts[1]
    ELSE parts[1] \o sep \o Join(Tail(parts), sep)

\* str.replace(old, new): every non-overlapping occurrence, left to right
RECURSIVE Replace(_, _, _)
Replace(s, old, new) ==
    IF s = <<>> THEN <<>>
    ELSE IF StartsWith(s, old)
    THEN new \o Replace(SubSeq(s, Len(old) + 1, Len(s)), old, new)
    ELSE <<s[1]>> \o Replace(Tail(s), old, new)

\* os.path.basename: what follows the last '/'
Basename(s) == Split(s, "/")[Len(Split(s, "/"))]

---------------------------------------------------------------------------
(* Revision-set files *)

\* readConfig: the stripped lines that are neither comments nor blank
readConfig(lines) ==
    LET stripped == [i \in 1..Len(lines) |-> Strip(lines[i])]
    IN SelectSeq(stripped, LAMBDA e : ~(StartsWith(e, <<"#">>) \/ Len(e) = 0))

\* the body of loadRevSet's loop, applied to entry number index (from 0) of
\* the entries readConfig yields
\* the loop's body with the check for one '@' loosened to at least one
Mutant_RevSetEntry(acc, index, entry) ==
    LET parts == Split(entry, "@")
    IN IF Len(parts) < 2
       THEN [acc EXCEPT !.warnings = Append(@, [line |-> index + 1, msg |-> "no @"])]
       ELSE LET revision == Strip(parts[2])
            IN IF ~IsDigit(revision)
               THEN [acc EXCEPT !.warnings =
                        Append(@, [line |-> index + 1, msg |-> "not a number"])]
               ELSE LET repository == Strip(parts[1])
                    IN [acc EXCEPT !.revset =
                           [p \in (DOMAIN @) \cup {repository} |->
                               IF p = repository THEN revision ELSE @[p]]]

RevSetEntry(acc, index, entry) ==
    LET parts == Split(entry, "@")
    IN IF Len(parts) # 2
       THEN [acc EXCEPT !.warnings = Append(@, [line |-> index + 1, msg |-> "no @"])]
       ELSE LET revision == Strip(parts[2])
            IN IF ~IsDigit(revision)
               THEN [acc EXCEPT !.warnings =
                        Append(@, [line |-> index + 1, msg |-> "not a number"])]
               ELSE LET repository == Strip(parts[1])
                    IN [acc EXCEPT !.revset =
                           [p \in (DOMAIN @) \cup {repository} |->
                               IF p = repository THEN revision ELSE @[p]]]

RECURSIVE RevSetLoop(_, _, _)
RevSetLoop(acc, entries, index) ==
    IF index >= Len(entries) THEN acc
    ELSE RevSetLoop(RevSetEntry(acc, index, entries[index + 1]), entries, index + 1)

EmptyRevSet == [p \in {} |-> <<>>]

loadRevSet(lines) ==
    RevSetLoop([revset |-> EmptyRevSet, warnings |-> <<>>], readConfig(lines), 0)

\* dict.get(key, None)
Get(d, key) == IF key \in DOMAIN d THEN d[key] ELSE None

---------------------------------------------------------------------------
(* The status categories of svn.constants and the masks *)

ST_ADDED == "added"
ST_CONFLICTED == "conflicted"
ST_DELETED == "deleted"
ST_EXTERNAL == "external"
ST_IGNORED == "ignored"
ST_INCOMPLETE == "incomplete"
ST_MERGED == "merged"
ST_MISSING == "missing"
ST_MODIFIED == "modified"
ST_NONE == "none"
ST_NORMAL == "normal"
ST_OBSTRUCTED == "obstructed"
ST_REPLACED == "replaced"
ST_UNVERSIONED == "unversioned"

StatusTypes ==
    {ST_ADDED, ST_CONFLICTED, ST_DELETED, ST_EXTERNAL, ST_IGNORED, ST_INCOMPLETE,
     ST_MERGED, ST_MISSING, ST_MODIFIED, ST_NONE, ST_NORMAL, ST_OBSTRUCTED,
     ST_REPLACED, ST_UNVERSIONED}

SVN_STATUS_MASK ==
    {ST_ADDED, ST_CONFLICTED, ST_DELETED, ST_INCOMPLETE, ST_MERGED, ST_MISSING,
     ST_MODIFIED, ST_OBSTRUCTED, ST_REPLACED}

\* the commit mask widened to the display mask
Mutant_SVN_COMMIT_MASK ==
    {ST_ADDED, ST_CONFLICTED, ST_DELETED, ST_INCOMPLETE, ST_MERGED, ST_MISSING,
     ST_MODIFIED, ST_OBSTRUCTED, ST_REPLACED}

SVN_COMMIT_MASK == {ST_ADDED, ST_DELETED, ST_MERGED, ST_MODIFIED, ST_REPLACED}

---------------------------------------------------------------------------
(* A Repo object r, with the working copy and the remote it talks to:      *)
(*   local_path, root      the path of the config line, the repository root *)
(*   info                  the cached client.info(): url and revision       *)
(*   url, rev              what the working copy on disk is switched to     *)
(*   branches              the names that exist under <baseurl>/branches    *)
(*   changes               what client.status() reports                     *)
(*   calls, out, printed,  the svn invocations, the messages, the lines     *)
(*   exc                   written to stdout and the exception of the      *)
(*                         method call in progress                         *)

baseurl(r) == r.info.repository_root \o <<"/">> \o r.local_path

makeUrl(r, parts) == Join(<<baseurl(r)>> \o parts, <<"/">>)

_updateInfo(r) ==
    [r EXCEPT !.info = [url |-> r.url, revision |-> r.rev, repository_root |-> r.root]]

\* the match of (tags|branches)/[^/]+|trunk that starts at position i, or None
MatchAt(s, i) ==
    LET rest == SubSeq(s, i, Len(s))
        dir == IF StartsWith(rest, S_tags \o <<"/">>) THEN S_tags
               ELSE IF StartsWith(rest, S_branches \o <<"/">>) THEN S_branches
               ELSE None
        after == IF dir = None THEN <<>> ELSE SubSeq(rest, Len(dir) + 2, Len(rest))
        segment == Split(after, "/")[1]
    IN IF dir # None /\ segment # <<>> THEN dir \o <<"/">> \o segment
       ELSE IF StartsWith(rest, S_trunk) THEN S_trunk
       ELSE None

\* re.search(...)[0]: the leftmost match
RegexSearch(s) ==
    LET hits == {i \in 1..Len(s) : MatchAt(s, i) # None}
    IN IF hits = {} THEN None
       ELSE MatchAt(s, CHOOSE i \in hits : \A j \in hits : i <= j)

currentPath(r) == RegexSearch(r.info.url)

currentBranch(r) == Basename(currentPath(r))

Put(r, msg) == [r EXCEPT !.out = Append(@, msg)]

_printError(r) == Put(r, "Failed")

Raise(r, e) == [r EXCEPT !.exc = e]

---------------------------------------------------------------------------
(* The svn client behind _exec.  The server is opaque but for the branch   *)
(* area: a command fails when svn would refuse it, and any command may     *)
(* fail for a reason of its own (network, authentication, locks).          *)

TrunkUrl(r) == r.root \o <<"/">> \o r.local_path \o <<"/">> \o S_trunk

BranchesUrl(r) == r.root \o <<"/">> \o r.local_path \o <<"/">> \o S_branches

BranchUrl(r, n) == BranchesUrl(r) \o <<"/">> \o n

UrlExists(r, u) ==
    \/ u = TrunkUrl(r)
    \/ u = BranchesUrl(r)
    \/ \E n \in r.branches : u = BranchUrl(r, n)

\* the branch name a URL under <baseurl>/branches stands for
NameOf(r, u) == SubSeq(u, Len(BranchesUrl(r)) + 2, Len(u))

RECURSIVE SetToSeq(_)
SetToSeq(S) ==
    IF S = {} THEN <<>>
    ELSE LET x == CHOOSE y \in S : TRUE IN <<x>> \o SetToSeq(S \ {x})

IsRevertible(c) == c.type \notin {ST_UNVERSIONED, ST_IGNORED, ST_EXTERNAL}

MergedChange == [name |-> <<"m">>, type |-> ST_MERGED]

\* what a successful run of the command leaves and prints: a set of
\* [r, lines], empty when svn refuses the command
SvnSuccess(r, verb, opts, args) ==
    CASE verb \in {"list", "ls"} ->
            IF UrlExists(r, args[1])
            THEN {[r |-> r, lines |-> IF args[1] = BranchesUrl(r)
                                      THEN SetToSeq({n \o <<"/">> : n \in r.branches})
                                      ELSE <<>>]}
            ELSE {}
      [] verb = "copy" ->
            IF UrlExists(r, args[1])
            THEN {[r |-> [r EXCEPT !.branches = @ \cup {NameOf(r, args[2])}],
                   lines |-> <<>>]}
            ELSE {}
      [] verb = "rm" ->
            IF UrlExists(r, args[1])
            THEN {[r |-> [r EXCEPT !.branches = @ \ {NameOf(r, args[1])}],
                   lines |-> <<>>]}
            ELSE {}
      [] verb = "rename" ->
            IF UrlExists(r, args[1])
            THEN {[r |-> [r EXCEPT !.branches =
                             (@ \ {NameOf(r, args[1])}) \cup {NameOf(r, args[2])}],
                   lines |-> <<>>]}
            ELSE {}
      [] verb = "switch" ->
            IF UrlExists(r, args[1])
            THEN {[r |-> [r EXCEPT !.url = args[1], !.rev = v], lines |-> <<>>] :
                     v \in r.rev..MaxRev}
            ELSE {}
      [] verb = "up" ->
            IF "-r" \in opts
            THEN IF IsDigit(args[1]) /\ ParseNat(args[1]) \in 1..MaxRev
                 THEN {[r |-> [r EXCEPT !.rev = ParseNat(args[1])], lines |-> <<>>]}
                 ELSE {}
            ELSE {[r |-> [r EXCEPT !.rev = v], lines |-> <<>>] : v \in r.rev..MaxRev}
      [] verb = "commit" ->
            {[r |-> [r EXCEPT !.rev = v,
                              !.changes = SelectSeq(@, LAMBDA c :
                                  \A i \in 1..(Len(args) - 1) : args[i] # c.name)],
              lines |-> <<>>] : v \in (r.rev + 1)..MaxRev}
      [] verb = "merge" ->
            IF UrlExists(r, args[Len(args) - 1])
            THEN {[r |-> IF "--dry-run" \in opts
                            \/ \E i \in 1..Len(r.changes) : r.changes[i] = MergedChange
                         THEN r
                         ELSE [r EXCEPT !.changes = Append(@, MergedChange)],
                   lines |-> <<>>]}
            ELSE {}
      [] verb = "revert" ->
            {[r |-> [r EXCEPT !.changes = SelectSeq(@, LAMBDA c : ~IsRevertible(c))],
              lines |-> <<>>]}
      [] verb = "diff" -> {[r |-> r, lines |-> <<>>]}
      [] verb = "log" ->
            IF "--stop-on-copy" \in opts
            THEN IF UrlExists(r, args[1])
                 THEN {[r |-> r,
                        lines |-> << <<"-","-">>, <<"r">> \o FormatNat(v) \o <<" ","|">> >>] :
                          v \in 1..MaxRev}
                 ELSE {}
            ELSE {[r |-> r, lines |-> e] : e \in {<<>>} \cup {<<v>> : v \in 1..MaxRev}}

\* one svn invocation as the history keeps it: the command line, whether it
\* exited with zero, and the lines check_output returned
Call(verb, opts, args, ok, lines) ==
    [cmd |-> verb, opts |-> opts, args |-> args, ok |-> ok, lines |-> lines]

\* _exec: the outcomes [ok, r, lines] of one svn invocation; not ok is the
\* CalledProcessError of a non-zero exit
_exec(r, verb, opts, args) ==
    {[ok |-> FALSE, r |-> [r EXCEPT !.calls = Append(@, Call(verb, opts, args, FALSE, <<>>))],
      lines |-> <<>>]}
    \cup
    {[ok |-> TRUE, r |-> [s.r EXCEPT !.calls = Append(@, Call(verb, opts, args, TRUE, s.lines))],
      lines |-> s.lines] : s \in SvnSuccess(r, verb, opts, args)}

---------------------------------------------------------------------------
(* The methods of Repo.  Each yields the set of Repo objects the call may  *)
(* leave, one per way the svn invocations inside it may end.               *)

\* termcolor.colored on a terminal, the identity otherwise
colored(tty, text) ==
    IF tty THEN <<"\\","e","[","3","4","m">> \o text \o <<"\\","e","[","0","m">>
    ELSE text

pendingChanges(r, mask) == SelectSeq(r.changes, LAMBDA c : c.type \in mask)

\* branchExists that takes the listing's failure for success
Mutant_branchExists(r, name) ==
    {[r |-> e.r, ret |-> TRUE] :
        e \in _exec(r, "list", {}, <<makeUrl(r, <<S_branches, name>>)>>)}

branchExists(r, name) ==
    {[r |-> e.r, ret |-> e.ok] :
        e \in _exec(r, "list", {}, <<makeUrl(r, <<S_branches, name>>)>>)}

getBranches(r) ==
    {IF e.ok THEN [e.r EXCEPT !.ret = [i \in 1..Len(e.lines) |-> RStrip(e.lines[i])]]
     ELSE Raise(e.r, "CalledProcessError") :
        e \in _exec(r, "ls", {}, <<makeUrl(r, <<S_branches>>)>>)}

findBranchOriginLog(r, branch, branch_url) ==
    {IF e.ok
     THEN LET head == e.lines[2]
              digits == SubSeq(head, 2,
                            CHOOSE k \in 1..Len(head) :
                                /\ \A i \in 2..k : head[i] \in Digits
                                /\ (k = Len(head) \/ head[k + 1] \notin Digits))
          IN [Put(e.r, "origin rev") EXCEPT !.ret = ParseNat(digits)]
     ELSE Raise(e.r, "CalledProcessError") :
        e \in _exec(r, "log", {"--stop-on-copy", "--limit 1", "-r 0:HEAD"}, <<branch_url>>)}

findBranchOrigin(r, branch_arg) ==
    LET branch == IF branch_arg = None THEN currentBranch(r) ELSE branch_arg
    IN IF branch # S_trunk
       THEN UNION {
                IF ~b.ret
                THEN {[Put(b.r, "does not exist, skipping") EXCEPT !.ret = -1]}
                ELSE findBranchOriginLog(b.r, branch, makeUrl(b.r, <<S_branches, branch>>)) :
        b \in branchExists(r, branch)}
       ELSE findBranchOriginLog(r, branch, makeUrl(r, <<branch>>))

\* createBranchFromTrunk without the existence check
Mutant_createBranchFromTrunk(r, name) ==
    {IF e.ok THEN e.r ELSE _printError(e.r) :
        e \in _exec(Put(r, "creating"), "copy", {},
                    <<makeUrl(r, <<S_trunk>>), makeUrl(r, <<S_branches, name>>)>>)}

createBranchFromTrunk(r, name) ==
    UNION {
        IF b.ret THEN {Put(b.r, "exists")}
        ELSE {IF e.ok THEN e.r ELSE _printError(e.r) :
                 e \in _exec(Put(b.r, "creating"), "copy", {},
                             <<makeUrl(b.r, <<S_trunk>>), makeUrl(b.r, <<S_branches, name>>)>>)} :
        b \in branchExists(r, name)}

createBranchFromBranch(r, source, target) ==
    UNION {
        IF ~b.ret THEN {Put(b.r, "source does not exist")}
        ELSE UNION {
            IF t.ret THEN {Put(t.r, "exists")}
            ELSE {IF e.ok THEN e.r ELSE _printError(e.r) :
                     e \in _exec(Put(t.r, "creating"), "copy", {},
                                 <<makeUrl(t.r, <<S_branches, source>>),
                                   makeUrl(t.r, <<S_branches, target>>)>>)} :
        t \in branchExists(b.r, target)} :
        b \in branchExists(r, source)}

checkoutSwitch(r, branch_url) ==
    {IF e.ok THEN e.r ELSE _printError(e.r) :
        e \in _exec(Put(r, "checking out"), "switch", {}, <<branch_url, r.local_path>>)}

checkoutBranch(r, name) ==
    IF currentBranch(r) = name THEN {Put(r, "already on branch")}
    ELSE IF name # S_trunk
    THEN UNION {
            IF ~b.ret THEN {Put(b.r, "does not exist, skipping")}
            ELSE checkoutSwitch(b.r, makeUrl(b.r, <<S_branches, name>>)) :
        b \in branchExists(r, name)}
    ELSE checkoutSwitch(r, makeUrl(r, <<name>>))

\* the guard of deleteBranch against deleting the branch the working copy is on
onBranch(r, name) == EndsWith(currentPath(r), name)

deleteBranch(r, name, archive) ==
    UNION {
        IF ~b.ret THEN {Put(b.r, "does not exist")}
        ELSE IF onBranch(b.r, name) THEN {Put(b.r, "cannot delete")}
        ELSE LET branch_url == makeUrl(b.r, <<S_branches, name>>)
             IN IF ~archive
                THEN {IF e.ok THEN e.r ELSE _printError(e.r) :
                         e \in _exec(Put(b.r, "deleting"), "rm", {}, <<branch_url>>)}
                ELSE {IF e.ok THEN e.r ELSE _printError(e.r) :
                         e \in _exec(Put(b.r, "archiving"), "rename", {},
                                     <<branch_url,
                                       makeUrl(b.r, <<S_branches, name \o S_closed>>)>>)} :
        b \in branchExists(r, name)}

\* diffBranch without the check of old against new
Mutant_diffBranchRun(r, old, new, old_url, new_url, fd) ==
    {IF e.ok THEN Put(e.r, IF fd = "stdout" THEN "diff to stdout" ELSE "diff to file")
     ELSE _printError(e.r) :
        e \in _exec(r, "diff", {"--old", "--new"}, <<old_url, new_url>>)}

diffBranchRun(r, old, new, old_url, new_url, fd) ==
    IF old = new THEN {Put(r, "can not diff")}
    ELSE {IF e.ok THEN Put(e.r, IF fd = "stdout" THEN "diff to stdout" ELSE "diff to file")
          ELSE _printError(e.r) :
             e \in _exec(r, "diff", {"--old", "--new"}, <<old_url, new_url>>)}

diffBranchNew(r, old, new_arg, old_url, fd) ==
    LET new == IF new_arg = None THEN Replace(currentPath(r), S_branches \o <<"/">>, <<>>)
               ELSE new_arg
    IN IF new # S_trunk
       THEN UNION {
                IF ~b.ret THEN {Put(b.r, "does not exist, skipping")}
                ELSE diffBranchRun(b.r, old, new, old_url,
                                   makeUrl(b.r, <<S_branches, new>>), fd) :
        b \in branchExists(r, new)}
       ELSE diffBranchRun(r, old, new, old_url, makeUrl(r, <<S_trunk>>), fd)

diffBranch(r, old, new, fd) ==
    IF old # S_trunk
    THEN UNION {
            IF ~b.ret THEN {Put(b.r, "does not exist, skipping")}
            ELSE diffBranchNew(b.r, old, new, makeUrl(b.r, <<S_branches, old>>), fd) :
        b \in branchExists(r, old)}
    ELSE diffBranchNew(r, old, new, makeUrl(r, <<S_trunk>>), fd)

\* update that leaves the revision out of the command
Mutant_update(r, revision) ==
    {IF e.ok THEN Put(_updateInfo(e.r), "at revision") ELSE _printError(e.r) :
        e \in _exec(Put(r, "updating"), "up", {}, <<r.local_path>>)}

update(r, revision) ==
    {IF e.ok THEN Put(_updateInfo(e.r), "at revision") ELSE _printError(e.r) :
        e \in _exec(Put(r, "updating"), "up",
                    IF revision # None THEN {"-r"} ELSE {},
                    IF revision # None THEN <<revision, r.local_path>>
                    ELSE <<r.local_path>>)}

\* LocalClient.update(): brings the working copy to the head revision
clientUpdate(r) == {[r EXCEPT !.rev = v] : v \in r.rev..MaxRev}

commit(r, message) ==
    LET changes == pendingChanges(r, SVN_COMMIT_MASK)
        paths == [i \in 1..Len(changes) |-> changes[i].name]
    IN IF Len(changes) = 0 THEN {Put(r, "no pending changes, skipping")}
       ELSE UNION {
                IF e.ok THEN {Put(_updateInfo(u), "at revision") : u \in clientUpdate(e.r)}
                ELSE {_printError(e.r)} :
        e \in _exec(Put(r, "committing"), "commit", {"-m"},
                       paths \o << <<"\"">> \o message \o <<"\"">> >>)}

mergeRun(r, branch_url, dryrun, revision) ==
    {IF e.ok THEN e.r ELSE _printError(e.r) :
        e \in _exec(Put(r, "merging"), "merge",
                    {"--non-interactive"}
                        \cup (IF dryrun THEN {"--dry-run"} ELSE {})
                        \cup (IF revision # None /\ revision # <<>> THEN {"-r"} ELSE {}),
                    (IF revision # None /\ revision # <<>> THEN <<revision>> ELSE <<>>)
                        \o <<branch_url, r.local_path>>)}

merge(r, branch, dryrun, revision) ==
    IF branch = currentBranch(r) THEN {Put(r, "can not merge with itself")}
    ELSE IF branch # S_trunk
    THEN UNION {
            IF ~b.ret THEN {Put(b.r, "does not exist, skipping")}
            ELSE mergeRun(b.r, makeUrl(b.r, <<S_branches, branch>>), dryrun, revision) :
        b \in branchExists(r, branch)}
    ELSE mergeRun(r, makeUrl(r, <<S_trunk>>), dryrun, revision)

\* log: e.lines stands for the <logentry> elements, newest first, each its revision
log(r, tty, limit, search, rev_set, offset) ==
    {IF ~e.ok THEN Raise(e.r, "CalledProcessError")
     ELSE IF (search # None \/ rev_set) /\ Len(e.lines) = 0 THEN e.r
     ELSE IF rev_set
     THEN [e.r EXCEPT !.printed = Append(@,
              colored(tty, r.local_path) \o <<" ","@"," ">> \o
              (IF e.lines[1] + offset >= 0 THEN FormatNat(e.lines[1] + offset)
               ELSE <<"-">> \o FormatNat(0 - (e.lines[1] + offset))))]
     ELSE Put(e.r, "log") :
        e \in _exec(r, "log", {"--xml", "-l"} \cup (IF search # None THEN {"--search"} ELSE {}),
                    <<baseurl(r), limit>> \o (IF search # None THEN <<search>> ELSE <<>>))}

diff(r, fd) ==
    {IF e.ok THEN Put(e.r, IF fd = "stdout" THEN "diff to stdout" ELSE "diff to file")
     ELSE Raise(e.r, "CalledProcessError") :
        e \in _exec(r, "diff", {}, <<r.local_path>>)}

revert(r) ==
    {IF e.ok THEN Put(e.r, "done") ELSE _printError(e.r) :
        e \in _exec(Put(r, "reverting"), "revert", {"--recursive"}, <<r.local_path>>)}

status(r) ==
    {[Put(r, "status") EXCEPT !.ret = [path |-> currentPath(r),
                                       revision |-> r.info.revision,
                                       changes |-> pendingChanges(r, SVN_STATUS_MASK)]]}

---------------------------------------------------------------------------
(* Calls of the methods on one Repo object *)

A_path == <<"A">>
B_path == <<"B">>
C_path == <<"C">>

\* the branch names given to the commands; trunk is a name like any other
BranchNames == {<<"b">>}

Names == {S_trunk} \cup BranchNames

\* Repo.__init__: the object of a working copy switched to url at revision rev
Repo(path, url_tail, rev, branches, changes) ==
    _updateInfo(
        [local_path |-> path, root |-> S_root,
         info |-> [url |-> <<>>, revision |-> 0, repository_root |-> S_root],
         url |-> S_root \o <<"/">> \o path \o <<"/">> \o url_tail,
         rev |-> rev, branches |-> branches, changes |-> changes,
         calls |-> <<>>, out |-> <<>>, printed |-> <<>>, exc |-> "none", ret |-> None])

\* a branch that no command names
OtherBranch == <<"a","b">>

\* the layouts a working copy is found in
Layouts ==
    {S_trunk} \cup {S_branches \o <<"/">> \o n : n \in BranchNames \cup {OtherBranch}}
              \cup {S_tags \o <<"/">> \o <<"b">>}

Change(name, type) == [name |-> name, type |-> type]

File1 == <<"a",".","t","x","t">>
File2 == <<"n">>

FewSnapshots ==
    {<<>>, <<Change(File1, ST_MODIFIED), Change(File2, ST_UNVERSIONED)>>}

\* status snapshots: every category alone, and beside a second path
Snapshots ==
    {<<>>} \cup {<<Change(File1, t)>> : t \in StatusTypes}
           \cup {<<Change(File1, t), Change(File2, u)>> :
                    t \in StatusTypes, u \in {ST_MODIFIED, ST_CONFLICTED, ST_UNVERSIONED}}

\* what a method call starts from and what it leaves in repos
Clean(r) == [r EXCEPT !.calls = <<>>, !.out = <<>>, !.printed = <<>>,
                      !.exc = "none", !.ret = None]

NoCall == [op |-> "none", args |-> <<>>, pre |-> None, calls |-> <<>>, out |-> <<>>,
           printed |-> <<>>, exc |-> "none", again |-> FALSE]

IdleFleet ==
    /\ cmd = [name |-> "none"]
    /\ idx = 0
    /\ trace = <<>>
    /\ raised = "none"

NotLoaded == [done |-> FALSE]

IdleRevSet ==
    /\ file = <<>>
    /\ rs = NotLoaded

\* the branch operations, on a working copy without local changes
Init ==
    /\ \E u \in Layouts, v \in 1..MaxRev, bs \in SUBSET BranchNames :
          repos = <<Repo(A_path, u, v,
                         bs \cup (IF u = S_branches \o <<"/">> \o OtherBranch
                                  THEN {OtherBranch} ELSE {}),
                         <<>>)>>
    /\ last = NoCall
    /\ IdleFleet
    /\ IdleRevSet

\* the working-copy operations, on a repository with the one branch b
InitWork ==
    /\ \E u \in {S_trunk, S_branches \o <<"/","b">>}, v \in 1..MaxRev, cs \in FewSnapshots :
          repos = <<Repo(A_path, u, v, BranchNames, cs)>>
    /\ last = NoCall
    /\ IdleFleet
    /\ IdleRevSet

\* commit and status, on every status snapshot
InitCommit ==
    /\ \E v \in 1..MaxRev, cs \in Snapshots :
          repos = <<Repo(A_path, S_trunk, v, BranchNames, cs)>>
    /\ last = NoCall
    /\ IdleFleet
    /\ IdleRevSet

\* one call op(args) on repos[1], ending in one of the objects of results
Do(op, args, results) ==
    /\ \E o \in results :
          /\ repos' = [repos EXCEPT ![1] = Clean(o)]
          /\ last' = [op |-> op, args |-> args, pre |-> repos[1], calls |-> o.calls,
                      out |-> o.out, printed |-> o.printed, exc |-> o.exc,
                      again |-> last.op = op /\ last.args = args]
    /\ UNCHANGED <<cmd, idx, trace, raised, file, rs>>

Revisions == {None} \cup {FormatNat(v) : v \in 1..MaxRev}

Ranges == {None, <<"1",":","2">>}

Offsets == {0, 1}

Messages == {<<"m","s","g">>}

CreateBranchFromTrunk ==
    \E n \in BranchNames :
        Do("createBranchFromTrunk", <<n>>, createBranchFromTrunk(repos[1], n))

CreateBranchFromBranch ==
    \E src \in Names, n \in BranchNames :
        Do("createBranchFromBranch", <<src, n>>, createBranchFromBranch(repos[1], src, n))

CheckoutBranch ==
    \E n \in Names : Do("checkoutBranch", <<n>>, checkoutBranch(repos[1], n))

DeleteBranch ==
    \E n \in Names, archive \in BOOLEAN :
        Do("deleteBranch", <<n, archive>>, deleteBranch(repos[1], n, archive))

DiffBranch ==
    \E old \in Names, new \in Names \cup {None} :
        Do("diffBranch", <<old, new>>, diffBranch(repos[1], old, new, "stdout"))

Merge ==
    \E n \in Names, dryrun \in BOOLEAN, range \in Ranges :
        Do("merge", <<n, dryrun, range>>, merge(repos[1], n, dryrun, range))

FindBranchOrigin ==
    \E n \in Names \cup {None} :
        Do("findBranchOrigin", <<n>>, findBranchOrigin(repos[1], n))

GetBranches == Do("getBranches", <<>>, getBranches(repos[1]))

Update ==
    \E v \in Revisions : Do("update", <<v>>, update(repos[1], v))

Commit ==
    \E m \in Messages : Do("commit", <<m>>, commit(repos[1], m))

Log ==
    \E tty \in BOOLEAN, rev_set \in BOOLEAN, offset \in Offsets :
        Do("log", <<tty, rev_set, offset>>,
           log(repos[1], tty, <<"1","0">>, None, rev_set, offset))

Diff == Do("diff", <<>>, diff(repos[1], "stdout"))

Revert == Do("revert", <<>>, revert(repos[1]))

Status == Do("status", <<>>, status(repos[1]))

Next ==
    \/ CreateBranchFromTrunk
    \/ CreateBranchFromBranch
    \/ CheckoutBranch
    \/ DeleteBranch
    \/ DiffBranch
    \/ Merge
    \/ FindBranchOrigin
    \/ GetBranches

Spec == Init /\ [][Next]_vars

NextWork ==
    \/ Update
    \/ Commit
    \/ CheckoutBranch
    \/ Merge
    \/ Revert
    \/ Diff
    \/ Log

SpecWork == InitWork /\ [][NextWork]_vars

NextCommit ==
    \/ Commit
    \/ Status
    \/ Revert

SpecCommit == InitCommit /\ [][NextCommit]_vars

---------------------------------------------------------------------------
(* The revision-set parser on its own *)

Lines ==
    { <<"A"," ","@"," ","4","2","\n">>,
      <<"#"," ","c","o","m","m","e","n","t","\n">>,
      <<"\n">>,
      <<"B"," ","@"," ","a","b","c","\n">>,
      <<"C","\n">>,
      <<" ","B","@","7"," ","\n">>,
      <<"A"," ","@"," ","1"," ","@"," ","2","\n">>,
      <<"A"," ","@","\n">> }

RECURSIVE Files(_)
Files(n) ==
    IF n = 0 THEN {<<>>}
    ELSE Files(n - 1) \cup {Append(f, l) : f \in {g \in Files(n - 1) : Len(g) = n - 1},
                                           l \in Lines}

\* the file of the documented example
ExampleFile ==
    << <<"A"," ","@"," ","4","2","\n">>,
       <<"#"," ","c","o","m","m","e","n","t","\n">>,
       <<"\n">>,
       <<"B"," ","@"," ","a","b","c","\n">>,
       <<"C","\n">> >>

InitRevSet ==
    /\ file \in Files(MaxLines) \cup {ExampleFile}
    /\ rs = NotLoaded
    /\ repos = <<>>
    /\ last = NoCall
    /\ IdleFleet

LoadRevSet ==
    /\ ~rs.done
    /\ rs' = [done |-> TRUE, revset |-> loadRevSet(file).revset,
              warnings |-> loadRevSet(file).warnings]
    /\ UNCHANGED <<repos, last, cmd, idx, trace, raised, file>>

NextRevSet == LoadRevSet

SpecRevSet == InitRevSet /\ [][NextRevSet]_vars

---------------------------------------------------------------------------
(* The fleet commands: Svntool.run after loadConfig, the command's argument *)
(* parsing, then one handler call per repository in list order.  An         *)
(* exception that leaves a handler ends the run.                            *)

FleetPaths == <<A_path, B_path, C_path, <<"D">> >>

\* the working copies a fleet is made of
Shapes(path) ==
    { Repo(path, S_trunk, 1, {}, <<>>),
      Repo(path, S_trunk, 1, BranchNames, <<Change(File1, ST_ADDED)>>),
      Repo(path, S_branches \o <<"/","b">>, 1, BranchNames,
           <<Change(File1, ST_MODIFIED), Change(File2, ST_UNVERSIONED)>>) }

RECURSIVE Fleets(_)
Fleets(n) ==
    IF n = 0 THEN {<<>>}
    ELSE {Append(f, r) : f \in Fleets(n - 1), r \in Shapes(FleetPaths[n])}

\* args.rev_set when no --rev-set is given
NoFile == <<None>>

RevSetFiles ==
    { << <<"A"," ","@"," ","2","\n">> >>,
      << <<"B","@","1","\n">>, <<"#"," ","c","\n">>, <<"A"," ","@"," ","x","\n">> >> }

Commands ==
    {[name |-> "status"], [name |-> "diff"], [name |-> "revert"], [name |-> "branch list"]}
    \cup {[name |-> "commit", message |-> m] : m \in Messages}
    \cup {[name |-> "update", rev_set |-> f] : f \in {NoFile} \cup RevSetFiles}
    \cup {[name |-> "log", search |-> None, limit |-> <<"1","0">>, rev_set |-> b,
           offset |-> o, tty |-> t] : b \in BOOLEAN, o \in {<<"0">>, <<"1">>, <<"x">>}, t \in BOOLEAN}
    \cup {[name |-> "branch origin", branch |-> n] : n \in Names \cup {None}}
    \cup {[name |-> "branch create", branch_name |-> n, branch |-> src] :
             n \in BranchNames, src \in Names \cup {None}}
    \cup {[name |-> "branch diff", old |-> o, new |-> n, filename |-> f] :
             o \in Names, n \in Names \cup {None}, f \in {None, <<"o","u","t">>}}
    \cup {[name |-> "branch delete", branch_name |-> n, archive |-> a] :
             n \in Names, a \in BOOLEAN}
    \cup {[name |-> "branch checkout", branch_name |-> n] : n \in Names}
    \cup {[name |-> "branch merge", branch_name |-> n, dry_run |-> d, revision |-> None] :
             n \in Names, d \in BOOLEAN}

InitFleet ==
    /\ repos \in Fleets(NumRepos)
    /\ cmd \in Commands
    /\ file = IF cmd.name = "update" /\ cmd.rev_set # NoFile THEN cmd.rev_set ELSE <<>>
    /\ rs = NotLoaded
    /\ idx = 0
    /\ trace = <<>>
    /\ raised = "none"
    /\ last = NoCall

\* int(): an optional sign and digits
PyIntOk(s) ==
    IF s # <<>> /\ s[1] \in {"-", "+"} THEN IsDigit(Tail(s)) ELSE IsDigit(s)

PyInt(s) ==
    IF s[1] = "-" THEN 0 - ParseNat(Tail(s))
    ELSE IF s[1] = "+" THEN ParseNat(Tail(s))
    ELSE ParseNat(s)

RECURSIVE LStripChars(_, _)
LStripChars(s, chars) ==
    IF s # <<>> /\ s[1] \in chars THEN LStripChars(Tail(s), chars) ELSE s

\* the command's run() up to its loop: Update loads the revision set, Log
\* checks the offset
Start ==
    /\ idx = 0
    /\ raised = "none"
    /\ rs' = IF cmd.name = "update" /\ cmd.rev_set # NoFile
             THEN [done |-> TRUE, revset |-> loadRevSet(file).revset,
                   warnings |-> loadRevSet(file).warnings]
             ELSE rs
    /\ IF cmd.name = "log" /\ ~IsDigit(LStripChars(cmd.offset, {"-", "+"}))
       THEN raised' = "SystemExit" /\ idx' = idx
       ELSE raised' = raised /\ idx' = 1
    /\ UNCHANGED <<repos, last, cmd, trace, file>>

Ended == raised # "none" \/ idx > Len(repos)

\* one turn of a command's loop: method(args) on repos[idx]
Step(method, args, results) ==
    /\ idx \in 1..Len(repos)
    /\ raised = "none"
    /\ \E o \in results :
          /\ repos' = [repos EXCEPT ![idx] = Clean(o)]
          /\ trace' = Append(trace, [repo |-> idx, method |-> method, args |-> args,
                                     calls |-> o.calls, out |-> o.out,
                                     printed |-> o.printed, exc |-> o.exc])
          /\ raised' = o.exc
          /\ idx' = IF o.exc = "none" THEN idx + 1 ELSE idx
    /\ UNCHANGED <<last, cmd, file, rs>>

\* a call of Repo.diff with the positional arguments argv after self
diffCall(r, argv) ==
    IF Len(argv) > 1 THEN {Raise(r, "TypeError")}
    ELSE diff(r, IF Len(argv) = 1 THEN argv[1] ELSE "stdout")

\* Update.run's lookup of the repository's revision
UpdateRevision(r) == IF rs.done THEN Get(rs.revset, r.local_path) ELSE None

StatusStep ==
    /\ cmd.name = "status"
    /\ Step("status", <<>>, status(repos[idx]))

CommitStep ==
    /\ cmd.name = "commit"
    /\ Step("commit", <<cmd.message>>, commit(repos[idx], cmd.message))

UpdateStep ==
    /\ cmd.name = "update"
    /\ Step("update", <<UpdateRevision(repos[idx])>>,
            update(repos[idx], UpdateRevision(repos[idx])))

LogStep ==
    /\ cmd.name = "log"
    /\ IF PyIntOk(cmd.offset)
       THEN Step("log", <<cmd.limit, cmd.search, cmd.rev_set, PyInt(cmd.offset)>>,
                 log(repos[idx], cmd.tty, cmd.limit, cmd.search, cmd.rev_set,
                     PyInt(cmd.offset)))
       ELSE Step("log", <<cmd.limit, cmd.search, cmd.rev_set>>,
                 {Raise(repos[idx], "ValueError")})

DiffStep ==
    /\ cmd.name = "diff"
    /\ Step("diff", <<>>, diffCall(repos[idx], <<>>))

RevertStep ==
    /\ cmd.name = "revert"
    /\ Step("revert", <<>>, revert(repos[idx]))

BranchListStep ==
    /\ cmd.name = "branch list"
    /\ Step("getBranches", <<>>, getBranches(repos[idx]))

BranchOriginStep ==
    /\ cmd.name = "branch origin"
    /\ Step("findBranchOrigin", <<cmd.branch>>, findBranchOrigin(repos[idx], cmd.branch))

BranchCreateStep ==
    /\ cmd.name = "branch create"
    /\ IF cmd.branch # None
       THEN Step("createBranchFromBranch", <<cmd.branch, cmd.branch_name>>,
                 createBranchFromBranch(repos[idx], cmd.branch, cmd.branch_name))
       ELSE Step("createBranchFromTrunk", <<cmd.branch_name>>,
                 createBranchFromTrunk(repos[idx], cmd.branch_name))

BranchDiffStep ==
    /\ cmd.name = "branch diff"
    /\ IF cmd.filename # None
       THEN Step("diff", <<cmd.old, cmd.new, "file">>,
                 diffCall(repos[idx], <<cmd.old, cmd.new, "file">>))
       ELSE Step("diffBranch", <<cmd.old, cmd.new, "stdout">>,
                 diffBranch(repos[idx], cmd.old, cmd.new, "stdout"))

BranchDeleteStep ==
    /\ cmd.name = "branch delete"
    /\ Step("deleteBranch", <<cmd.branch_name, cmd.archive>>,
            deleteBranch(repos[idx], cmd.branch_name, cmd.archive))

BranchCheckoutStep ==
    /\ cmd.name = "branch checkout"
    /\ Step("checkoutBranch", <<cmd.branch_name>>,
            checkoutBranch(repos[idx], cmd.branch_name))

BranchMergeStep ==
    /\ cmd.name = "branch merge"
    /\ Step("merge", <<cmd.branch_name, cmd.dry_run, cmd.revision>>,
            merge(repos[idx], cmd.branch_name, cmd.dry_run, cmd.revision))

NextFleet ==
    \/ Start
    \/ StatusStep
    \/ CommitStep
    \/ UpdateStep
    \/ LogStep
    \/ DiffStep
    \/ RevertStep
    \/ BranchListStep
    \/ BranchOriginStep
    \/ BranchCreateStep
    \/ BranchDiffStep
    \/ BranchDeleteStep
    \/ BranchCheckoutStep
    \/ BranchMergeStep

SpecFleet == InitFleet /\ [][NextFleet]_vars

---------------------------------------------------------------------------
(* log --rev-set with its standard output kept as a revision-set file, and  *)
(* that file read back by Update.loadRevSet                                 *)

\* --offset values: plain, signed, and two that pass Log.run's lstrip check
\* only ("--1" and "x" differ in that)
RevSetOffsets ==
    {<<"0">>, <<"1">>, <<"+","1">>, <<"-","1">>, <<"-","3">>, <<"-","-","1">>, <<"x">>}

\* standard output is the file being written, so isatty() is false and
\* colored is the identity
RevSetCommands ==
    {[name |-> "log", search |-> q, limit |-> <<"1","0">>, rev_set |-> TRUE,
      offset |-> o, tty |-> FALSE] :
        q \in {None, <<"q">>}, o \in RevSetOffsets}

InitRoundTrip ==
    /\ repos \in Fleets(NumRepos)
    /\ cmd \in RevSetCommands
    /\ file = <<>>
    /\ rs = NotLoaded
    /\ idx = 0
    /\ trace = <<>>
    /\ raised = "none"
    /\ last = NoCall

RECURSIVE Stdout(_)
\* what the run wrote to standard output, handler by handler
Stdout(t) == IF t = <<>> THEN <<>> ELSE t[1].printed \o Stdout(Tail(t))

\* fd.readlines() of the file standard output was redirected to
ReadLines(out) == [i \in 1..Len(out) |-> out[i] \o <<"\n">>]

\* Update.run's loadRevSet on the file the finished log run wrote
ReloadRevSet ==
    /\ cmd.name = "log"
    /\ cmd.rev_set
    /\ Ended
    /\ ~rs.done
    /\ file' = ReadLines(Stdout(trace))
    /\ rs' = [done |-> TRUE, revset |-> loadRevSet(file').revset,
              warnings |-> loadRevSet(file').warnings]
    /\ UNCHANGED <<repos, last, cmd, idx, trace, raised>>

NextRoundTrip ==
    \/ Start
    \/ LogStep
    \/ ReloadRevSet

SpecRoundTrip == InitRoundTrip /\ [][NextRoundTrip]_vars

---------------------------------------------------------------------------
(* What the claims speak of *)

MutationVerbs == {"copy", "rm", "rename", "switch", "merge"}

\* the positions of the svn invocations of the last call whose verb is in verbs
CallsOf(verbs) == {i \in 1..Len(last.calls) : last.calls[i].cmd \in verbs}

Said(msg) == \E i \in 1..Len(last.out) : last.out[i] = msg

SkipMessages ==
    {"does not exist, skipping", "does not exist", "already on branch",
     "can not merge with itself", "can not diff", "cannot delete"}

Skipped == \E i \in 1..Len(last.out) : last.out[i] \in SkipMessages

\* the existence listing of branches/n, as the last call issued it
IsListingOf(c, n) == c.cmd = "list" /\ c.args = <<BranchUrl(last.pre, n)>>

\* branchExists(n) is false for the last call: branches/n is not on the remote,
\* or the call's listing of it failed
BranchExistsFalse(n) ==
    \/ n \notin last.pre.branches
    \/ \E i \in 1..Len(last.calls) : IsListingOf(last.calls[i], n) /\ ~last.calls[i].ok

\* the last call is one of the four guarded operations with n as an operand
GuardedOn(n) ==
    \/ last.op \in {"checkoutBranch", "deleteBranch", "merge"} /\ last.args[1] = n
    \/ last.op = "diffBranch" /\ (last.args[1] = n \/ last.args[2] = n)

\* C2 as claimed: for every branch name n for which branchExists(n) is false,
\* checkoutBranch, deleteBranch, merge and diffBranch on n produce a skip or a
\* warning and issue no svn copy, rm, rename, switch or merge.
C2_MissingBranchNoMutation ==
    \A n \in Names :
        GuardedOn(n) /\ BranchExistsFalse(n) => Skipped /\ CallsOf(MutationVerbs) = {}

\* C2 as amended: the same for every branch name n other than 'trunk'; trunk is
\* resolved to <baseurl>/trunk without an existence check.
C2_MissingNamedBranchNoMutation ==
    \A n \in Names \ {S_trunk} :
        GuardedOn(n) /\ BranchExistsFalse(n) => Skipped /\ CallsOf(MutationVerbs) = {}

C2_Witness ==
    /\ last.op = "checkoutBranch"
    /\ last.args[1] = <<"b">>
    /\ last.pre.url = TrunkUrl(last.pre)
    /\ <<"b">> \notin last.pre.branches
    /\ Said("does not exist, skipping")
    /\ Len(last.calls) = 1

\* C3 as claimed: merge(x) with x the current branch, and diffBranch(x, x), are
\* rejected with a message and issue no remote call at all.
C3_SelfOperandNoRemoteCall ==
    /\ last.op = "merge" /\ last.args[1] = currentBranch(last.pre)
          => Said("can not merge with itself") /\ last.calls = <<>>
    /\ last.op = "diffBranch" /\ last.args[1] = last.args[2]
          => Said("can not diff") /\ last.calls = <<>>

\* C3 as amended: merge(x) with x the Repo object's currentBranch is rejected
\* with a message and no remote call at all.  diffBranch(x, x) never issues
\* svn diff: for x = trunk it is rejected with no remote call; for any other x
\* it first lists branches/x, up to twice, and is rejected if both listings
\* succeed and skipped as a missing branch otherwise.
C3_SelfOperandNoMergeNoDiff ==
    /\ last.op = "merge" /\ last.args[1] = currentBranch(last.pre)
          => Said("can not merge with itself") /\ last.calls = <<>>
    /\ last.op = "diffBranch" /\ last.args[1] = last.args[2]
          => LET x == last.args[1]
                 listed == \A i \in 1..Len(last.calls) : last.calls[i].ok
             IN /\ \A i \in 1..Len(last.calls) : IsListingOf(last.calls[i], x)
                /\ x = S_trunk => last.calls = <<>> /\ Said("can not diff")
                /\ x # S_trunk /\ listed => Len(last.calls) = 2 /\ Said("can not diff")
                /\ x # S_trunk /\ ~listed
                      => Len(last.calls) \in 1..2 /\ Said("does not exist, skipping")
                /\ last.exc = "none"

C3_Witness ==
    /\ last.op = "diffBranch"
    /\ last.args = << <<"b">>, <<"b">> >>
    /\ Said("can not diff")
    /\ Len(last.calls) = 2

C9_DeleteGuard ==
    last.op = "deleteBranch" =>
        LET name == last.args[1]
            archive == last.args[2]
            exists == Len(last.calls) >= 1 /\ IsListingOf(last.calls[1], name)
                         /\ last.calls[1].ok
            on == last.pre.url = BranchUrl(last.pre, name)
            acts == CallsOf({"rm", "rename"})
        IN /\ acts # {} => exists /\ ~on
           /\ on => acts = {}
           /\ exists /\ ~on =>
                 /\ Cardinality(acts) = 1
                 /\ \A i \in acts :
                       IF archive
                       THEN /\ last.calls[i].cmd = "rename"
                            /\ last.calls[i].args =
                                 <<BranchUrl(last.pre, name),
                                   BranchUrl(last.pre, name \o S_closed)>>
                       ELSE /\ last.calls[i].cmd = "rm"
                            /\ last.calls[i].args = <<BranchUrl(last.pre, name)>>

\* C5 as claimed: after every successful update, commit or checkoutBranch the
\* cached metadata is re-fetched before the call returns, so the cached URL and
\* revision, and with them currentBranch, are those of the working copy.
C5_RefreshedAfterSuccess ==
    /\ last.op \in {"update", "commit", "checkoutBranch"}
    /\ \E i \in CallsOf({"up", "commit", "switch"}) : last.calls[i].ok
    => /\ repos[1].info.url = repos[1].url
       /\ repos[1].info.revision = repos[1].rev
       /\ currentBranch(repos[1]) = Basename(RegexSearch(repos[1].url))

\* the paths the svn commit invocation c was given (its last argument is the message)
CommitPaths(c) == {c.args[i] : i \in 1..(Len(c.args) - 1)}

\* the paths of the status snapshot the last call started from, by category
PathsOf(types) ==
    {last.pre.changes[i].name :
        i \in {j \in 1..Len(last.pre.changes) : last.pre.changes[j].type \in types}}

\* C6: commit passes to svn commit exactly the paths whose category is added,
\* deleted, merged, modified or replaced, never a path of another category, and
\* with no such path it makes no svn commit call and reports no pending changes.
C6_CommitExactlyCommittable ==
    last.op = "commit" =>
        LET want == PathsOf({"added", "deleted", "merged", "modified", "replaced"})
            never == PathsOf({"unversioned", "ignored", "external", "normal", "none",
                              "conflicted", "missing", "incomplete", "obstructed"})
        IN IF want = {}
           THEN last.calls = <<>> /\ last.out = <<"no pending changes, skipping">>
           ELSE /\ Len(last.calls) = 1
                /\ last.calls[1].cmd = "commit"
                /\ CommitPaths(last.calls[1]) = want
                /\ CommitPaths(last.calls[1]) \cap never = {}
                /\ Len(last.calls[1].args) = Cardinality(want) + 1

C6_Witness ==
    /\ last.op = "commit"
    /\ Len(last.pre.changes) = 2
    /\ last.pre.changes[1].type = "conflicted"
    /\ last.pre.changes[2].type = "modified"
    /\ Len(last.calls) = 1
    /\ last.calls[1].ok
    /\ CommitPaths(last.calls[1]) = {File2}

\* C1 as claimed: in every fleet command a failing svn invocation while
\* handling one repository does not keep the handler from the repositories
\* after it: the run does not end with the error, and a run that ends has
\* called the handler once on each repository, in list order.
C1_FailureIsolated ==
    /\ raised # "CalledProcessError"
    /\ Ended /\ raised = "none" =>
          /\ Len(trace) = Len(repos)
          /\ \A i \in 1..Len(trace) : trace[i].repo = i

\* a line of a revision-set file, read character by character
IsBlankLine(l) == \A i \in 1..Len(l) : l[i] \in Whitespace

IsCommentLine(l) ==
    \E k \in 1..Len(l) : l[k] = "#" /\ \A i \in 1..(k - 1) : l[i] \in Whitespace

AtSigns(l) == {i \in 1..Len(l) : l[i] = "@"}

\* the text of l between positions a and b without the whitespace around it
Trimmed(l, a, b) ==
    LET inside == {i \in a..b : l[i] \notin Whitespace}
    IN IF inside = {} THEN <<>>
       ELSE SubSeq(l, CHOOSE i \in inside : \A j \in inside : i <= j,
                      CHOOSE i \in inside : \A j \in inside : j <= i)

At(l) == CHOOSE i \in AtSigns(l) : TRUE

PathOf(l) == Trimmed(l, 1, At(l) - 1)

RevisionOf(l) == Trimmed(l, At(l) + 1, Len(l))

\* '<path> @ <revision>' with a non-negative integer revision
IsEntryLine(l) ==
    /\ Cardinality(AtSigns(l)) = 1
    /\ RevisionOf(l) # <<>>
    /\ \A i \in 1..Len(RevisionOf(l)) : RevisionOf(l)[i] \in Digits

\* C7: loadRevSet returns the mapping of exactly the entries of the lines, not
\* comments and not blank, of the form '<path> @ <revision>' with a
\* non-negative integer revision, path and revision stripped (the last entry
\* of a path is the one kept); every other line that is neither comment nor
\* blank gives exactly one warning and is skipped.
C7_RevSetOfWellFormedLines ==
    rs.done /\ cmd.name = "none" =>
        LET content == {i \in 1..Len(file) :
                           ~IsBlankLine(file[i]) /\ ~IsCommentLine(file[i])}
            good == {i \in content : IsEntryLine(file[i])}
        IN /\ DOMAIN rs.revset = {PathOf(file[i]) : i \in good}
           /\ \A i \in good :
                 (\A j \in good : j > i => PathOf(file[j]) # PathOf(file[i]))
                     => /\ rs.revset[PathOf(file[i])] = RevisionOf(file[i])
                        /\ ParseNat(rs.revset[PathOf(file[i])]) >= 0
           /\ Len(rs.warnings) = Cardinality(content \ good)

C7_Witness ==
    /\ rs.done
    /\ cmd.name = "none"
    /\ file = ExampleFile
    /\ DOMAIN rs.revset = {A_path}
    /\ rs.revset[A_path] = <<"4","2">>
    /\ Len(rs.warnings) = 2

\* C8: update with a revision set runs, for each repository whose local path
\* is a key of the set, svn up -r <pinned revision>, and for each other
\* repository svn up with no revision; without a revision-set file every
\* repository is updated with no revision.
C8_UpdatePinsPerRepository ==
    cmd.name = "update" =>
        /\ rs.done <=> idx > 0 /\ cmd.rev_set # NoFile
        /\ Ended => Len(trace) = Len(repos)
        /\ \A i \in 1..Len(trace) :
              LET path == repos[trace[i].repo].local_path
                  pinned == rs.done /\ path \in DOMAIN rs.revset
              IN /\ trace[i].repo = i
                 /\ trace[i].method = "update"
                 /\ Len(trace[i].calls) = 1
                 /\ trace[i].calls[1].cmd = "up"
                 /\ IF pinned
                    THEN /\ trace[i].calls[1].opts = {"-r"}
                         /\ trace[i].calls[1].args = <<rs.revset[path], path>>
                         /\ trace[i].calls[1].ok =>
                               /\ repos[i].rev = ParseNat(rs.revset[path])
                               /\ repos[i].info.revision = ParseNat(rs.revset[path])
                    ELSE /\ trace[i].calls[1].opts = {}
                         /\ trace[i].calls[1].args = <<path>>

C8_Witness ==
    /\ cmd.name = "update"
    /\ Ended
    /\ Len(trace) >= 2
    /\ trace[1].calls[1].opts = {"-r"}
    /\ trace[1].calls[1].args = << <<"2">>, A_path>>
    /\ trace[1].calls[1].ok
    /\ trace[2].calls[1].opts = {}
    /\ trace[2].calls[1].args = <<B_path>>

\* C10 as claimed: branch diff does the same per repository whatever the sink:
\* with --filename it calls the branch-to-branch diff of old against new once
\* per repository, in list order, writing to the file, as it calls
\* diffBranch(old, new, stdout) once per repository without it.
C10_SinkIndependent ==
    cmd.name = "branch diff" /\ Ended =>
        /\ raised = "none"
        /\ Len(trace) = Len(repos)
        /\ \A i \in 1..Len(trace) :
              /\ trace[i].repo = i
              /\ trace[i].method = "diffBranch"
              /\ trace[i].args =
                    <<cmd.old, cmd.new, IF cmd.filename # None THEN "file" ELSE "stdout">>

---------------------------------------------------------------------------
(* C11 *)

\* the line of the reloaded file that the i-th handled repository wrote
LineOf(i) == Len(Stdout(SubSeq(trace, 1, i)))

\* the i-th handler call's svn log returned these entries' revisions
EntriesOf(i) == trace[i].calls[1].lines

\* the decimal numeral of an integer, as '%s' writes it
FormatInt(n) == IF n >= 0 THEN FormatNat(n) ELSE <<"-">> \o FormatNat(0 - n)

\* C11 as claimed: in revision-set mode, for an integral offset the log
\* command accepts, a repository whose log has an entry writes one line that
\* loadRevSet reads without a warning as repository path -> first entry's
\* revision + offset, and a repository whose log has no entry writes no line.
C11_RevSetRoundTrip ==
    /\ cmd.name = "log" /\ cmd.rev_set /\ rs.done
    /\ PyIntOk(cmd.offset)
    => \A i \in 1..Len(trace) :
          trace[i].exc = "none" =>
             LET path == repos[trace[i].repo].local_path
             IN IF EntriesOf(i) = <<>>
                THEN trace[i].printed = <<>>
                ELSE /\ Len(trace[i].printed) = 1
                     /\ \A w \in 1..Len(rs.warnings) : rs.warnings[w].line # LineOf(i)
                     /\ path \in DOMAIN rs.revset
                     /\ rs.revset[path] = FormatInt(EntriesOf(i)[1] + PyInt(cmd.offset))

---------------------------------------------------------------------------
(* C12 *)

\* the URL checkoutBranch(n) resolves n to
ResolvedUrl(n) == IF n = S_trunk THEN TrunkUrl(last.pre) ELSE BranchUrl(last.pre, n)

\* C12 as claimed: checkoutBranch(name) answers 'already on branch' exactly
\* when the working copy is on trunk (name 'trunk') or on branches/name; on
\* any other path, tags/name included, with the target existing it issues
\* exactly one svn switch, to the resolved branch URL.
C12_CheckoutShortCircuit ==
    last.op = "checkoutBranch" =>
        LET name == last.args[1]
            on == last.pre.url = ResolvedUrl(name)
            exists == name = S_trunk \/ ~BranchExistsFalse(name)
            switches == CallsOf({"switch"})
        IN /\ Said("already on branch") <=> on
           /\ ~on /\ exists =>
                 /\ Cardinality(switches) = 1
                 /\ \A i \in switches :
                       last.calls[i].args = <<ResolvedUrl(name), last.pre.local_path>>
====
